---- MODULE Spec2Model ----
(***************************************************************************)
(* A model of the two tutorial notebooks of the repository.                *)
(*                                                                         *)
(*   mathematical_program_and_traj_opt_examples.ipynb: a kernel that runs  *)
(*   the code cells top to bottom, one action per statement kind.  Each    *)
(*   cell creates a MathematicalProgram, adds variables, costs and         *)
(*   constraints, solves it and prints from the result.                    *)
(*                                                                         *)
(*   drake_MP_tutorial.ipynb (src/unnamed/part_000 is the same notebook    *)
(*   without its outputs): the plant construction cell, the forward        *)
(*   kinematics function and the inverse kinematics cell.                  *)
(*                                                                         *)
(* The solvers and the multibody engine are the external library.  A       *)
(* one-variable linear or quadratic program is solved exactly, which is    *)
(* the contract the notebook states ("will minimize the objective          *)
(* function's costs when calling Solve()", "LPs will have unbounded        *)
(* objectives without constraints") and agrees with every output the       *)
(* notebook records.  A nonlinear program is solved by a local solver      *)
(* whose outcome the notebook says depends on the initial guess: it is a   *)
(* nondeterministic choice between a found and a failed result.            *)
(*                                                                         *)
(* Not modelled: the cell that samples cos/sin into 81 linear constraints  *)
(* (transcendental coefficients) and the cell with a Python callback cost. *)
(***************************************************************************)
EXTENDS Integers, Sequences, FiniteSets, TLC

VARIABLES
    mpc,        \* MP notebook: [cell, stmt], the next statement to execute
    mp,         \* MP notebook: the program the name `mp` is bound to
    res,        \* MP notebook: the result the name `res` is bound to
    out,        \* MP notebook: what the current cell has printed
    nextId,     \* MP notebook: programs constructed so far
    solverRuns, \* MP notebook: times a solver was run
    prevRes,    \* MP notebook: the result of the Solve call before the latest
    nResults,   \* MP notebook: how many times a Solve call returned a result
    raised,     \* MP notebook: an exception stopped the run
    kpc,        \* IK notebook: the next statement to execute, or "idle"
    plant,      \* IK notebook: the MultibodyPlant
    world_frame, \* IK notebook: the name world_frame
    ee_frame,   \* IK notebook: the name ee_frame
    context,    \* IK notebook: the module-level default context
    q,          \* IK notebook: the name q
    T_W_E,      \* IK notebook: the name T_W_E (a 4x4 matrix)
    target_pos, \* IK notebook: the name target_pos
    ik,         \* IK notebook: the InverseKinematics object (ik, mp, q_vars)
    pos_tol,    \* IK notebook: the name pos_tol
    p_WF,       \* IK notebook: the name p_WF
    kres,       \* IK notebook: the name res
    q_val,      \* IK notebook: the name q_val
    kout,       \* IK notebook: what the IK cell has printed
    lastFK,     \* the latest call of compute_forward_kinematics: [q, T]
    fkRef       \* an earlier call of compute_forward_kinematics: [q, T]

mpVars == <<mpc, mp, res, out, nextId, solverRuns, prevRes, nResults, raised>>

kinVars ==
    <<kpc, plant, world_frame, ee_frame, context, q, T_W_E, target_pos, ik,
      pos_tol, p_WF, kres, q_val, kout, lastFK, fkRef>>

vars == <<mpVars, kinVars>>

----------------------------------------------------------------------------
(* Values a solution vector holds: a number, not-a-number, a placeholder   *)
(* of extreme magnitude, or a local optimum of a nonlinear program.        *)
Num(v) == [k |-> "num", v |-> v]
NaN == [k |-> "nan", v |-> 0]
Extreme == [k |-> "extreme", v |-> 0]
LocalOpt == [k |-> "local", v |-> 0]

\* What a failed solve leaves in the solution vector (recorded: nan, -6.17e14).
Garbage == {NaN, Extreme}

NoProgram ==
    [id |-> 0, state |-> "None", nvars |-> 0, costs |-> <<>>, cons |-> <<>>,
     guess |-> <<>>, solves |-> 0, lateAdds |-> 0]

NoResult == [success |-> "-", solver |-> "-", x |-> <<>>, status |-> "-"]

NoOutput == [success |-> "-", solver |-> "-", sol |-> <<>>, status |-> "-"]

----------------------------------------------------------------------------
(* The notebook's code cells as statement lists. arg is the statement's    *)
(* number: a variable count, a cost coefficient, a bound, the centre a of  *)
(* (x-a)^2, the radius of the circle, or an initial guess in halves.       *)
Stmt(op, arg) == [op |-> op, arg |-> arg]

CellLP ==
    << Stmt("New", 0), Stmt("Vars", 1), Stmt("LinCost", 1), Stmt("LinConGE", 1),
       Stmt("Solve", 0), Stmt("PrintSuccess", 0), Stmt("PrintSolver", 0),
       Stmt("GetSolution", 0), Stmt("PrintStatus", 0) >>

\* The IPOPT cell with its constraint written the wrong way round (x <= 1).
CellLPIpoptFlipped ==
    << Stmt("New", 0), Stmt("Vars", 1), Stmt("LinCost", 1), Stmt("LinConLE", 1),
       Stmt("IpoptSolve", 0), Stmt("PrintSuccess", 0), Stmt("PrintSolver", 0),
       Stmt("GetSolution", 0), Stmt("PrintStatus", 0) >>

CellLPIpopt ==
    << Stmt("New", 0), Stmt("Vars", 1), Stmt("LinCost", 1), Stmt("LinConGE", 1),
       Stmt("IpoptSolve", 0), Stmt("PrintSuccess", 0), Stmt("PrintSolver", 0),
       Stmt("GetSolution", 0), Stmt("PrintStatus", 0) >>

\* The unconstrained cell reading the solution before it looks at the flag.
CellUnconstrainedReadFirst ==
    << Stmt("New", 0), Stmt("Vars", 1), Stmt("LinCost", 1),
       Stmt("Solve", 0), Stmt("GetSolution", 0), Stmt("PrintSuccess", 0) >>

CellUnconstrained ==
    << Stmt("New", 0), Stmt("Vars", 1), Stmt("LinCost", 1),
       Stmt("Solve", 0), Stmt("PrintSuccess", 0), Stmt("GetSolution", 0) >>

\* The x <= 1 cell with the bound on the side that stops the descent (x >= 1).
CellUpperBoundAsLower ==
    << Stmt("New", 0), Stmt("Vars", 1), Stmt("LinCost", 1), Stmt("LinConGE", 1),
       Stmt("Solve", 0), Stmt("PrintSuccess", 0), Stmt("GetSolution", 0) >>

CellUpperBound ==
    << Stmt("New", 0), Stmt("Vars", 1), Stmt("LinCost", 1), Stmt("LinConLE", 1),
       Stmt("Solve", 0), Stmt("PrintSuccess", 0), Stmt("GetSolution", 0) >>

CellMaximize ==
    << Stmt("New", 0), Stmt("Vars", 1), Stmt("LinCost", -1), Stmt("LinConLE", 4),
       Stmt("Solve", 0), Stmt("PrintSuccess", 0), Stmt("GetSolution", 0) >>

\* The QP cell with the sign of the centre slipped: (x+3)^2.
CellQPSignSlip ==
    << Stmt("New", 0), Stmt("Vars", 1), Stmt("QuadCost", -3),
       Stmt("Solve", 0), Stmt("PrintSuccess", 0), Stmt("PrintSolver", 0),
       Stmt("GetSolution", 0), Stmt("PrintStatus", 0) >>

CellQP ==
    << Stmt("New", 0), Stmt("Vars", 1), Stmt("QuadCost", 3),
       Stmt("Solve", 0), Stmt("PrintSuccess", 0), Stmt("PrintSolver", 0),
       Stmt("GetSolution", 0), Stmt("PrintStatus", 0) >>

CellNLP ==
    << Stmt("New", 0), Stmt("Vars", 2), Stmt("AddConstraint", 1),
       Stmt("LinCost", 1), Stmt("Guess", -1),
       Stmt("Solve", 0), Stmt("PrintSuccess", 0), Stmt("PrintSolver", 0),
       Stmt("GetSolution", 0), Stmt("PrintStatus", 0) >>

CellNLPDot ==
    << Stmt("New", 0), Stmt("Vars", 2), Stmt("AddConstraint", 1),
       Stmt("LinCost", 1), Stmt("Guess", -1),
       Stmt("Solve", 0), Stmt("PrintSuccess", 0), Stmt("GetSolution", 0),
       Stmt("PrintStatus", 0) >>

Notebook ==
    << CellLP, CellLPIpopt, CellUnconstrained, CellUpperBound, CellMaximize,
       CellQP, CellNLP, CellNLPDot >>

\* The outputs the notebook records for the cells that were run.
RecordedLP ==
    [success |-> "True", solver |-> "SNOPT/f2c", sol |-> <<Num(1)>>,
     status |-> "kSolutionFound"]

RecordedLPIpopt ==
    [success |-> "True", solver |-> "IPOPT", sol |-> <<Num(1)>>,
     status |-> "kSolutionFound"]

RecordedUnconstrainedSuccess == "False"

RecordedUpperBoundSuccess == "False"

----------------------------------------------------------------------------
(* Solve                                                                   *)

SeqToSet(s) == {s[i] : i \in 1..Len(s)}

Max(S) == CHOOSE m \in S : \A n \in S : n <= m

Min(S) == CHOOSE m \in S : \A n \in S : m <= n

RECURSIVE SumArgs(_)
SumArgs(s) == IF s = <<>> THEN 0 ELSE Head(s).arg + SumArgs(Tail(s))

SelectOp(s, op) == SelectSeq(s, LAMBDA e : e.op = op)

\* One variable, linear or quadratic costs, bound constraints only.
IsConvex1D(prog) ==
    /\ prog.nvars = 1
    /\ \A i \in 1..Len(prog.costs) : prog.costs[i].op \in {"LinCost", "QuadCost"}
    /\ Len(SelectOp(prog.costs, "QuadCost")) <= 1
    /\ Len(SelectOp(prog.costs, "QuadCost")) = 1 => SelectOp(prog.costs, "LinCost") = <<>>
    /\ \A i \in 1..Len(prog.cons) : prog.cons[i].op \in {"LinConGE", "LinConLE"}

Found(solver, xs) ==
    [success |-> "True", solver |-> solver, x |-> xs, status |-> "kSolutionFound"]

Failed(solver, status, n, g) ==
    [success |-> "False", solver |-> solver, x |-> [i \in 1..n |-> g],
     status |-> status]

Clamp(v, hasLo, lo, hasHi, hi) ==
    IF hasLo /\ v < lo THEN lo ELSE IF hasHi /\ v > hi THEN hi ELSE v

\* The exact minimiser of a one-variable program, or why there is none.
\* g is what the solver leaves in the solution vector when it fails.
Minimize(prog, solver, g) ==
    LET lbs   == {c.arg : c \in SeqToSet(SelectOp(prog.cons, "LinConGE"))}
        ubs   == {c.arg : c \in SeqToSet(SelectOp(prog.cons, "LinConLE"))}
        hasLo == lbs # {}
        hasHi == ubs # {}
        lo    == IF hasLo THEN Max(lbs) ELSE 0
        hi    == IF hasHi THEN Min(ubs) ELSE 0
        slope == SumArgs(SelectOp(prog.costs, "LinCost"))
        quads == SelectOp(prog.costs, "QuadCost")
    IN  IF hasLo /\ hasHi /\ lo > hi
          THEN Failed(solver, "kInfeasibleConstraints", prog.nvars, g)
        ELSE IF quads # <<>>
          THEN Found(solver, <<Num(Clamp(quads[1].arg, hasLo, lo, hasHi, hi))>>)
        ELSE IF slope > 0
          THEN IF hasLo THEN Found(solver, <<Num(lo)>>)
                        ELSE Failed(solver, "kUnbounded", prog.nvars, g)
        ELSE IF slope < 0
          THEN IF hasHi THEN Found(solver, <<Num(hi)>>)
                        ELSE Failed(solver, "kUnbounded", prog.nvars, g)
        ELSE Found(solver, <<Num(Clamp(0, hasLo, lo, hasHi, hi))>>)

\* A local solver on a nonlinear program: it finds a local optimum or fails.
LocalSolve(prog, solver, found, g) ==
    IF found THEN Found(solver, [i \in 1..prog.nvars |-> LocalOpt])
             ELSE Failed(solver, "kInfeasibleConstraints", prog.nvars, g)

\* The solver Solve(mp) picks on its own (recorded for the LP and the IK cell).
ChooseBestSolver(prog) == "SNOPT/f2c"

SolveWith(prog, solver, found, g) ==
    IF IsConvex1D(prog) THEN Minimize(prog, solver, g)
                        ELSE LocalSolve(prog, solver, found, g)

\* A Solve that raises when the solver fails.
SolveRaisesOnFailure(r) == r.success = "False"

\* Solve(mp): a failed solve comes back as a result, it does not raise.
SolveRaises(r) == FALSE

----------------------------------------------------------------------------
(* The mathematical-program notebook, statement by statement.              *)

NCells == Len(Notebook)

Cur == Notebook[mpc.cell][mpc.stmt]

AtStmt(op) ==
    /\ ~raised
    /\ mpc.cell <= NCells
    /\ mpc.stmt <= Len(Notebook[mpc.cell])
    /\ Cur.op = op

Advance == mpc' = [mpc EXCEPT !.stmt = @ + 1]

CellDone(c) == mpc.cell = c /\ mpc.stmt = Len(Notebook[c]) + 1

\* A cell that goes on with the program of the cell before it.
ReusedProgram(id) == [mp EXCEPT !.id = id]

\* mp = MathematicalProgram(): a new, empty program.
MathematicalProgram(id) == [NoProgram EXCEPT !.id = id, !.state = "Created"]

\* Adding to a program configures it; an add after the solve is counted.
Added(prog) ==
    [prog EXCEPT !.state = IF @ = "Solved" THEN "Solved" ELSE "Configured",
                 !.lateAdds = IF prog.state = "Solved" THEN @ + 1 ELSE @]

NewContinuousVariables(prog, n) == [Added(prog) EXCEPT !.nvars = @ + n]

AddCost(prog, stmt) == [Added(prog) EXCEPT !.costs = Append(@, stmt)]

AddCon(prog, stmt) == [Added(prog) EXCEPT !.cons = Append(@, stmt)]

SetInitialGuessForAllVariables(prog, v) ==
    [prog EXCEPT !.guess = [i \in 1..prog.nvars |-> v]]

Solved(prog) == [prog EXCEPT !.state = "Solved", !.solves = @ + 1]

MP_New ==
    /\ AtStmt("New")
    /\ mp' = MathematicalProgram(nextId + 1)
    /\ nextId' = nextId + 1
    /\ Advance
    /\ UNCHANGED <<res, out, solverRuns, prevRes, nResults, raised>>
    /\ UNCHANGED kinVars

MP_NewContinuousVariables ==
    /\ AtStmt("Vars")
    /\ mp' = NewContinuousVariables(mp, Cur.arg)
    /\ Advance
    /\ UNCHANGED <<res, out, nextId, solverRuns, prevRes, nResults, raised>>
    /\ UNCHANGED kinVars

MP_AddLinearCost ==
    /\ AtStmt("LinCost")
    /\ mp' = AddCost(mp, Cur)
    /\ Advance
    /\ UNCHANGED <<res, out, nextId, solverRuns, prevRes, nResults, raised>>
    /\ UNCHANGED kinVars

MP_AddQuadraticCost ==
    /\ AtStmt("QuadCost")
    /\ mp' = AddCost(mp, Cur)
    /\ Advance
    /\ UNCHANGED <<res, out, nextId, solverRuns, prevRes, nResults, raised>>
    /\ UNCHANGED kinVars

MP_AddLinearConstraint ==
    /\ AtStmt("LinConGE") \/ AtStmt("LinConLE")
    /\ mp' = AddCon(mp, Cur)
    /\ Advance
    /\ UNCHANGED <<res, out, nextId, solverRuns, prevRes, nResults, raised>>
    /\ UNCHANGED kinVars

MP_AddConstraint ==
    /\ AtStmt("AddConstraint")
    /\ mp' = AddCon(mp, Cur)
    /\ Advance
    /\ UNCHANGED <<res, out, nextId, solverRuns, prevRes, nResults, raised>>
    /\ UNCHANGED kinVars

MP_SetInitialGuess ==
    /\ AtStmt("Guess")
    /\ mp' = SetInitialGuessForAllVariables(mp, Cur.arg)
    /\ Advance
    /\ UNCHANGED <<res, out, nextId, solverRuns, prevRes, nResults, raised>>
    /\ UNCHANGED kinVars

\* The body of both solve statements: one solver run, one result.
DoSolve(solver) ==
    \E found \in BOOLEAN, g \in Garbage :
        LET r == SolveWith(mp, solver, found, g)
        IN  /\ solverRuns' = solverRuns + 1
            /\ mp' = Solved(mp)
            /\ IF SolveRaises(r)
                 THEN /\ raised' = TRUE
                      /\ UNCHANGED <<res, prevRes, nResults, mpc>>
                 ELSE /\ res' = r
                      /\ prevRes' = res
                      /\ nResults' = nResults + 1
                      /\ Advance
                      /\ UNCHANGED raised
            /\ UNCHANGED <<out, nextId>>

\* res = Solve(mp)
MP_Solve ==
    /\ AtStmt("Solve")
    /\ DoSolve(ChooseBestSolver(mp))
    /\ UNCHANGED kinVars

\* solver = IpoptSolver(); res = solver.Solve(mp, None, None)
MP_IpoptSolve ==
    /\ AtStmt("IpoptSolve")
    /\ DoSolve("IPOPT")
    /\ UNCHANGED kinVars

MP_PrintSuccess ==
    /\ AtStmt("PrintSuccess")
    /\ out' = [out EXCEPT !.success = res.success]
    /\ Advance
    /\ UNCHANGED <<mp, res, nextId, solverRuns, prevRes, nResults, raised>>
    /\ UNCHANGED kinVars

MP_PrintSolver ==
    /\ AtStmt("PrintSolver")
    /\ out' = [out EXCEPT !.solver = res.solver]
    /\ Advance
    /\ UNCHANGED <<mp, res, nextId, solverRuns, prevRes, nResults, raised>>
    /\ UNCHANGED kinVars

\* print(res.GetSolution(x))
MP_GetSolution ==
    /\ AtStmt("GetSolution")
    /\ out' = [out EXCEPT !.sol = res.x]
    /\ Advance
    /\ UNCHANGED <<mp, res, nextId, solverRuns, prevRes, nResults, raised>>
    /\ UNCHANGED kinVars

MP_PrintStatus ==
    /\ AtStmt("PrintStatus")
    /\ out' = [out EXCEPT !.status = res.status]
    /\ Advance
    /\ UNCHANGED <<mp, res, nextId, solverRuns, prevRes, nResults, raised>>
    /\ UNCHANGED kinVars

\* The kernel goes on to the next code cell; its output area starts empty.
MP_NextCell ==
    /\ ~raised
    /\ mpc.cell <= NCells
    /\ CellDone(mpc.cell)
    /\ mpc' = [cell |-> mpc.cell + 1, stmt |-> 1]
    /\ out' = NoOutput
    /\ UNCHANGED <<mp, res, nextId, solverRuns, prevRes, nResults, raised>>
    /\ UNCHANGED kinVars

MPInit ==
    /\ mpc = [cell |-> 1, stmt |-> 1]
    /\ mp = NoProgram
    /\ res = NoResult
    /\ out = NoOutput
    /\ nextId = 0
    /\ solverRuns = 0
    /\ prevRes = NoResult
    /\ nResults = 0
    /\ raised = FALSE

MPNext ==
    \/ MP_New
    \/ MP_NewContinuousVariables
    \/ MP_AddLinearCost
    \/ MP_AddQuadraticCost
    \/ MP_AddLinearConstraint
    \/ MP_AddConstraint
    \/ MP_SetInitialGuess
    \/ MP_Solve
    \/ MP_IpoptSolve
    \/ MP_PrintSuccess
    \/ MP_PrintSolver
    \/ MP_GetSolution
    \/ MP_PrintStatus
    \/ MP_NextCell


----------------------------------------------------------------------------
(* The kinematics notebook.  Lengths are in thousandths (of a metre, of    *)
(* one for a rotation entry), joint angles in halves of a radian.          *)

\* q = np.zeros(7): the arm's number of joint positions.
NumPositions == 7

\* Largest joint value and largest position tolerance the model tries.
MaxJoint == 1
MaxTol == 2

Zeros(n) == [i \in 1..n |-> 0]

\* q = np.zeros(7); q[1] = v (numpy counts from 0).
Configs == {[Zeros(NumPositions) EXCEPT ![2] = v] : v \in 0..MaxJoint}

Identity3 == << <<1000, 0, 0>>, <<0, 1000, 0>>, <<0, 0, 1000>> >>

\* The pose the notebook prints for q[1] = 0.5, and two more.
RecordedPose ==
    [R |-> << <<479, 0, -878>>, <<0, 1000, 0>>, <<878, 0, 479>> >>,
     p |-> <<454, 0, 1190>>]

SamplePoses ==
    { RecordedPose,
      [R |-> Identity3, p |-> <<0, 0, 0>>],
      [R |-> << <<0, -1000, 0>>, <<1000, 0, 0>>, <<0, 0, 1000>> >>,
       p |-> <<-3, 5, 2>>] }

\* What a robot description file can make of the arm: the pose of the
\* end-effector frame in the world frame, per configuration.
Kinematics == [Configs -> SamplePoses]

NoPose == [R |-> Identity3, p |-> <<0, 0, 0>>]

NoPlant ==
    [made |-> FALSE, loaded |-> FALSE, welded |-> FALSE, finalized |-> FALSE,
     kin |-> [c \in Configs |-> NoPose]]

NoContext == [positions |-> <<>>]

NoMatrix == <<>>

NoIK == [state |-> "None", nvars |-> 0, cons |-> <<>>, solves |-> 0, lateAdds |-> 0]

NoCall == [q |-> <<>>, T |-> NoMatrix]

\* context = plant.CreateDefaultContext(): every joint at its default, zero.
CreateDefaultContext(pl) == [positions |-> Zeros(NumPositions)]

\* plant.SetPositions(context, q), for q of the plant's length.
SetPositions(ctx, qv) == [ctx EXCEPT !.positions = qv]

\* plant.CalcRelativeTransform(context, frame_A, frame_B) for the world and
\* the end-effector frame: what the model's kinematics give at the context's
\* positions.
CalcRelativeTransform(pl, ctx, frame_A, frame_B) ==
    IF frame_A = "world" /\ frame_B = "iiwa_link_ee"
      THEN pl.kin[ctx.positions]
      ELSE NoPose

\* RigidTransform.matrix(): the 4x4 homogeneous matrix.
Matrix(T) ==
    << T.R[1] \o <<T.p[1]>>, T.R[2] \o <<T.p[2]>>, T.R[3] \o <<T.p[3]>>,
       <<0, 0, 0, 1000>> >>

\* M[:3, 3]
TranslationOf(M) == <<M[1][4], M[2][4], M[3][4]>>

\* The function without its first line: SetPositions then writes to the
\* context of the module.
SetPositionsOnModuleContext(ctx, qarg) == SetPositions(ctx, qarg)

\* What a call leaves of the module-level context: the function binds a
\* context of its own (context = plant.CreateDefaultContext()) and sets the
\* positions on that one.
ModuleContextAfterCall(ctx, qarg) == ctx

\* The function with the parameter q replaced by the notebook's name q.
FKOfGlobalQ(pl, qarg) ==
    LET ctx == SetPositions(CreateDefaultContext(pl),
                            IF q = <<>> THEN qarg ELSE q)
    IN  Matrix(CalcRelativeTransform(pl, ctx, world_frame, ee_frame))

compute_forward_kinematics(pl, qarg) ==
    LET ctx == SetPositions(CreateDefaultContext(pl), qarg)
    IN  Matrix(CalcRelativeTransform(pl, ctx, world_frame, ee_frame))

\* numpy's array - scalar and array + scalar
VecMinus(v, t) == [i \in 1..Len(v) |-> v[i] - t]

VecPlus(v, t) == [i \in 1..Len(v) |-> v[i] + t]

\* The constraint with its bounds swapped.
PositionConstraintSwapped(frameB, p_BQ, frameA, target, tol) ==
    [frameB |-> frameB, p_BQ |-> p_BQ, frameA |-> frameA,
     lower |-> VecPlus(target, tol), upper |-> VecMinus(target, tol)]

\* The arguments of ik.AddPositionConstraint(frameB=F, p_BQ=np.zeros(3),
\* frameA=W, p_AQ_lower=p_WF - pos_tol, p_AQ_upper=p_WF + pos_tol).
PositionConstraint(frameB, p_BQ, frameA, target, tol) ==
    [frameB |-> frameB, p_BQ |-> p_BQ, frameA |-> frameA,
     lower |-> VecMinus(target, tol), upper |-> VecPlus(target, tol)]

\* The position in frame A of the point Q fixed in frame B at p_BQ.
PointInFrameA(T, p_BQ) ==
    [i \in 1..3 |->
        T.p[i] + (T.R[i][1] * p_BQ[1] + T.R[i][2] * p_BQ[2] + T.R[i][3] * p_BQ[3]) \div 1000]

Satisfies(pl, con, c) ==
    LET ctx == SetPositions(CreateDefaultContext(pl), c)
        pt  == PointInFrameA(CalcRelativeTransform(pl, ctx, con.frameA, con.frameB), con.p_BQ)
    IN  \A i \in 1..3 : con.lower[i] <= pt[i] /\ pt[i] <= con.upper[i]

\* Solve(mp) on the IK program: a local solver, which returns a configuration
\* c that satisfies every constraint, or fails.
SolveIK(prog, pl, found, c, g) ==
    IF found /\ \A i \in 1..Len(prog.cons) : Satisfies(pl, prog.cons[i], c)
      THEN Found(ChooseBestSolver(prog), [i \in 1..prog.nvars |-> Num(c[i])])
      ELSE Failed(ChooseBestSolver(prog), "kInfeasibleConstraints", prog.nvars, g)

\* ik = InverseKinematics(plant): a new program over the joint angles.
InverseKinematics(pl) ==
    [NoIK EXCEPT !.state = "Created", !.nvars = NumPositions]

At(l) == kpc = l

Goto(l) == kpc' = l

\* plant = MultibodyPlant()
K_NewPlant ==
    /\ At("l36")
    /\ plant' = [NoPlant EXCEPT !.made = TRUE]
    /\ Goto("l37")
    /\ UNCHANGED <<world_frame, ee_frame, context, q, T_W_E, target_pos, ik,
                   pos_tol, p_WF, kres, q_val, kout, lastFK, fkRef>>
    /\ UNCHANGED mpVars

\* iiwa_model = Parser(plant).AddModelFromFile(path_to_urdf, ...)
K_AddModelFromFile ==
    /\ At("l37")
    /\ \E k \in Kinematics : plant' = [plant EXCEPT !.loaded = TRUE, !.kin = k]
    /\ Goto("l39")
    /\ UNCHANGED <<world_frame, ee_frame, context, q, T_W_E, target_pos, ik,
                   pos_tol, p_WF, kres, q_val, kout, lastFK, fkRef>>
    /\ UNCHANGED mpVars

\* world_frame = plant.world_frame()
K_WorldFrame ==
    /\ At("l39")
    /\ world_frame' = "world"
    /\ Goto("l41")
    /\ UNCHANGED <<plant, ee_frame, context, q, T_W_E, target_pos, ik,
                   pos_tol, p_WF, kres, q_val, kout, lastFK, fkRef>>
    /\ UNCHANGED mpVars

\* plant.WeldFrames(A=world_frame, B=plant.GetFrameByName('base', iiwa_model))
K_WeldFrames ==
    /\ At("l41")
    /\ plant' = [plant EXCEPT !.welded = TRUE]
    /\ Goto("l42")
    /\ UNCHANGED <<world_frame, ee_frame, context, q, T_W_E, target_pos, ik,
                   pos_tol, p_WF, kres, q_val, kout, lastFK, fkRef>>
    /\ UNCHANGED mpVars

\* plant.Finalize()
K_Finalize ==
    /\ At("l42")
    /\ plant' = [plant EXCEPT !.finalized = TRUE]
    /\ Goto("l44")
    /\ UNCHANGED <<world_frame, ee_frame, context, q, T_W_E, target_pos, ik,
                   pos_tol, p_WF, kres, q_val, kout, lastFK, fkRef>>
    /\ UNCHANGED mpVars

\* ee_frame = plant.GetFrameByName(ee_frame_name, iiwa_model)
K_GetFrameByName ==
    /\ At("l44")
    /\ ee_frame' = "iiwa_link_ee"
    /\ Goto("l47")
    /\ UNCHANGED <<plant, world_frame, context, q, T_W_E, target_pos, ik,
                   pos_tol, p_WF, kres, q_val, kout, lastFK, fkRef>>
    /\ UNCHANGED mpVars

\* context = plant.CreateDefaultContext()
K_CreateDefaultContext ==
    /\ At("l47")
    /\ context' = CreateDefaultContext(plant)
    /\ Goto("l56")
    /\ UNCHANGED <<plant, world_frame, ee_frame, q, T_W_E, target_pos, ik,
                   pos_tol, p_WF, kres, q_val, kout, lastFK, fkRef>>
    /\ UNCHANGED mpVars

\* def compute_forward_kinematics(plant, q): ...
K_Def ==
    /\ At("l56")
    /\ Goto("idle")
    /\ UNCHANGED <<plant, world_frame, ee_frame, context, q, T_W_E, target_pos,
                   ik, pos_tol, p_WF, kres, q_val, kout, lastFK, fkRef>>
    /\ UNCHANGED mpVars

\* A call is logged as the latest one, and may be kept as the earlier one the
\* later calls are compared with.
LogCall(call) ==
    /\ lastFK' = call
    /\ \/ fkRef' = fkRef
       \/ fkRef = NoCall /\ fkRef' = call

\* q = np.zeros(7)
K_Zeros ==
    /\ At("idle")
    /\ q' = Zeros(NumPositions)
    /\ Goto("l70")
    /\ UNCHANGED <<plant, world_frame, ee_frame, context, T_W_E, target_pos, ik,
                   pos_tol, p_WF, kres, q_val, kout, lastFK, fkRef>>
    /\ UNCHANGED mpVars

\* q[1] = 0.5, for any joint value
K_SetJoint ==
    /\ At("l70")
    /\ \E v \in 0..MaxJoint : q' = [q EXCEPT ![2] = v]
    /\ Goto("l71")
    /\ UNCHANGED <<plant, world_frame, ee_frame, context, T_W_E, target_pos, ik,
                   pos_tol, p_WF, kres, q_val, kout, lastFK, fkRef>>
    /\ UNCHANGED mpVars

\* T_W_E = compute_forward_kinematics(plant, q); print(T_W_E)
K_ForwardKinematics ==
    /\ At("l71")
    /\ T_W_E' = compute_forward_kinematics(plant, q)
    /\ LogCall([q |-> q, T |-> T_W_E'])
    /\ context' = ModuleContextAfterCall(context, q)
    /\ Goto("l73")
    /\ UNCHANGED <<plant, world_frame, ee_frame, q, target_pos, ik,
                   pos_tol, p_WF, kres, q_val, kout>>
    /\ UNCHANGED mpVars

\* target_pos = T_W_E[:3, 3]
K_TargetPos ==
    /\ At("l73")
    /\ target_pos' = TranslationOf(T_W_E)
    /\ Goto("idle")
    /\ UNCHANGED <<plant, world_frame, ee_frame, context, q, T_W_E, ik,
                   pos_tol, p_WF, kres, q_val, kout, lastFK, fkRef>>
    /\ UNCHANGED mpVars

\* Any other call compute_forward_kinematics(plant, c) of the function.
K_CallFK ==
    /\ At("idle")
    /\ \E c \in Configs :
           /\ LogCall([q |-> c, T |-> compute_forward_kinematics(plant, c)])
           /\ context' = ModuleContextAfterCall(context, c)
    /\ UNCHANGED <<kpc, plant, world_frame, ee_frame, q, T_W_E,
                   target_pos, ik, pos_tol, p_WF, kres, q_val, kout>>
    /\ UNCHANGED mpVars

\* ik = InverseKinematics(plant); q_vars = ik.q(); mp = ik.prog()
\* (the cell reads T_W_E, which the cell before it binds)
K_InverseKinematics ==
    /\ At("idle")
    /\ T_W_E # NoMatrix
    /\ ik' = InverseKinematics(plant)
    /\ kout' = NoOutput
    /\ Goto("l93")
    /\ UNCHANGED <<plant, world_frame, ee_frame, context, q, T_W_E, target_pos,
                   pos_tol, p_WF, kres, q_val, lastFK, fkRef>>
    /\ UNCHANGED mpVars

\* pos_tol = 1e-3, for any tolerance >= 0
K_SetTol ==
    /\ At("l93")
    /\ \E t \in 0..MaxTol : pos_tol' = t
    /\ Goto("l95")
    /\ UNCHANGED <<plant, world_frame, ee_frame, context, q, T_W_E, target_pos,
                   ik, p_WF, kres, q_val, kout, lastFK, fkRef>>
    /\ UNCHANGED mpVars

\* p_WF = T_W_E[:3, 3]; F = ee_frame; W = world_frame
K_SetTarget ==
    /\ At("l95")
    /\ p_WF' = TranslationOf(T_W_E)
    /\ Goto("l99")
    /\ UNCHANGED <<plant, world_frame, ee_frame, context, q, T_W_E, target_pos,
                   ik, pos_tol, kres, q_val, kout, lastFK, fkRef>>
    /\ UNCHANGED mpVars

\* ik.AddPositionConstraint(...)
K_AddPositionConstraint ==
    /\ At("l99")
    /\ ik' = AddCon(ik, PositionConstraint(ee_frame, Zeros(3), world_frame,
                                           p_WF, pos_tol))
    /\ Goto("l103")
    /\ UNCHANGED <<plant, world_frame, ee_frame, context, q, T_W_E, target_pos,
                   pos_tol, p_WF, kres, q_val, kout, lastFK, fkRef>>
    /\ UNCHANGED mpVars

\* res = Solve(mp)
K_Solve ==
    /\ At("l103")
    /\ \E found \in BOOLEAN, c \in Configs, g \in Garbage :
           kres' = SolveIK(ik, plant, found, c, g)
    /\ ik' = Solved(ik)
    /\ Goto("l104")
    /\ UNCHANGED <<plant, world_frame, ee_frame, context, q, T_W_E, target_pos,
                   pos_tol, p_WF, q_val, kout, lastFK, fkRef>>
    /\ UNCHANGED mpVars

\* print("success:", res.is_success())
K_PrintSuccess ==
    /\ At("l104")
    /\ kout' = [kout EXCEPT !.success = kres.success]
    /\ Goto("l105")
    /\ UNCHANGED <<plant, world_frame, ee_frame, context, q, T_W_E, target_pos,
                   ik, pos_tol, p_WF, kres, q_val, lastFK, fkRef>>
    /\ UNCHANGED mpVars

\* print(res.get_solver_id().name())
K_PrintSolver ==
    /\ At("l105")
    /\ kout' = [kout EXCEPT !.solver = kres.solver]
    /\ Goto("l106")
    /\ UNCHANGED <<plant, world_frame, ee_frame, context, q, T_W_E, target_pos,
                   ik, pos_tol, p_WF, kres, q_val, lastFK, fkRef>>
    /\ UNCHANGED mpVars

\* q_val = res.GetSolution(q_vars); print("q_val", q_val)
K_GetSolution ==
    /\ At("l106")
    /\ q_val' = kres.x
    /\ kout' = [kout EXCEPT !.sol = kres.x]
    /\ Goto("l108")
    /\ UNCHANGED <<plant, world_frame, ee_frame, context, q, T_W_E, target_pos,
                   ik, pos_tol, p_WF, kres, lastFK, fkRef>>
    /\ UNCHANGED mpVars

\* print("solution result:", res.get_solution_result())
K_PrintStatus ==
    /\ At("l108")
    /\ kout' = [kout EXCEPT !.status = kres.status]
    /\ Goto("idle")
    /\ UNCHANGED <<plant, world_frame, ee_frame, context, q, T_W_E, target_pos,
                   ik, pos_tol, p_WF, kres, q_val, lastFK, fkRef>>
    /\ UNCHANGED mpVars

KinInit ==
    /\ kpc = "l36"
    /\ plant = NoPlant
    /\ world_frame = "-"
    /\ ee_frame = "-"
    /\ context = NoContext
    /\ q = <<>>
    /\ T_W_E = NoMatrix
    /\ target_pos = <<>>
    /\ ik = NoIK
    /\ pos_tol = 0
    /\ p_WF = <<>>
    /\ kres = NoResult
    /\ q_val = <<>>
    /\ kout = NoOutput
    /\ lastFK = NoCall
    /\ fkRef = NoCall

KinNext ==
    \/ K_NewPlant
    \/ K_AddModelFromFile
    \/ K_WorldFrame
    \/ K_WeldFrames
    \/ K_Finalize
    \/ K_GetFrameByName
    \/ K_CreateDefaultContext
    \/ K_Def
    \/ K_Zeros
    \/ K_SetJoint
    \/ K_ForwardKinematics
    \/ K_TargetPos
    \/ K_CallFK
    \/ K_InverseKinematics
    \/ K_SetTol
    \/ K_SetTarget
    \/ K_AddPositionConstraint
    \/ K_Solve
    \/ K_PrintSuccess
    \/ K_PrintSolver
    \/ K_GetSolution
    \/ K_PrintStatus

MPFinished == mpc.cell = NCells + 1

Init == MPInit /\ KinInit

\* The kinematics notebook alone, and the mathematical-program notebook alone.
SpecKin == Init /\ [][KinNext]_vars

SpecMP == Init /\ [][MPNext]_vars

\* Both notebooks.  Each runs in a kernel of its own and they share no state,
\* so running one after the other loses no behaviour of either.
Next ==
    \/ MPNext
    \/ MPFinished /\ KinNext

Spec == Init /\ [][Next]_vars

----------------------------------------------------------------------------
(* The claims.                                                             *)

\* C2: any two calls of compute_forward_kinematics(plant, q) with the same
\* configuration return the identical matrix, whatever forward-kinematics
\* calls, IK builds and solves happen between them.
C2_FKDeterministic ==
    (fkRef # NoCall /\ lastFK.q = fkRef.q) => lastFK.T = fkRef.T

\* Two calls with the same bent configuration are logged, after which the
\* notebook's q names another configuration and an IK program was solved.
C2_Witness ==
    /\ fkRef # NoCall
    /\ lastFK = fkRef
    /\ fkRef.q[2] > 0
    /\ q # <<>> /\ q # fkRef.q
    /\ ik.state = "Solved"
    /\ plant.kin[q] # plant.kin[fkRef.q]

\* C4: the IK program built by the cell has the joint angles as decision
\* variables and exactly one position constraint: the origin of the
\* end-effector frame (query point zero), expressed in the world frame, boxed
\* componentwise between target - tol and target + tol; so lower <= upper and
\* the target is inside the box.
C4_BoxConstraint ==
    ik.cons # <<>> =>
        /\ ik.nvars = NumPositions
        /\ Len(ik.cons) = 1
        /\ ik.cons[1].frameB = "iiwa_link_ee"
        /\ ik.cons[1].frameA = "world"
        /\ ik.cons[1].p_BQ = <<0, 0, 0>>
        /\ pos_tol >= 0
        /\ \A i \in 1..3 :
              /\ ik.cons[1].lower[i] = p_WF[i] - pos_tol
              /\ ik.cons[1].upper[i] = p_WF[i] + pos_tol
              /\ ik.cons[1].lower[i] <= ik.cons[1].upper[i]
              /\ ik.cons[1].lower[i] <= p_WF[i]
              /\ p_WF[i] <= ik.cons[1].upper[i]

\* The constraint is built with tolerance zero around a target with a
\* negative coordinate.
C4_Witness ==
    /\ ik.cons # <<>>
    /\ pos_tol = 0
    /\ p_WF = <<-3, 5, 2>>

\* C5: every program goes Created -> Configured -> Solved once: it is new in
\* its cell, nothing is added to it after its solve, it is solved at most
\* once and exactly once when its cell is done, and a solved program was
\* configured before.
C5_Lifecycle ==
    /\ mp.state \in {"None", "Created", "Configured", "Solved"}
    /\ mp.lateAdds = 0
    /\ mp.solves <= 1
    /\ mp.state = "Solved" <=> mp.solves = 1
    /\ mp.state = "Created" => mp.nvars = 0 /\ mp.costs = <<>> /\ mp.cons = <<>>
    /\ mp.state = "Solved" => mp.nvars > 0 /\ mp.costs # <<>>
    /\ (mpc.cell <= NCells /\ mpc.stmt > 1) => mp.id = mpc.cell
    /\ \A c \in 1..NCells : CellDone(c) => mp.state = "Solved"
    /\ ik.state \in {"None", "Created", "Configured", "Solved"}
    /\ ik.lateAdds = 0
    /\ ik.solves <= 1
    /\ ik.state = "Solved" <=> ik.solves = 1
    /\ ik.state = "Created" => ik.cons = <<>>
    /\ ik.state = "Solved" => Len(ik.cons) = 1
    /\ (kpc = "idle" /\ ik.state # "None") => ik.state = "Solved"

\* The last cell's program is solved and a second IK program is being built
\* after the first was solved.
C5_Witness ==
    /\ MPFinished
    /\ mp.id = NCells
    /\ mp.state = "Solved"
    /\ ik.state = "Configured"
    /\ kres.success = "True"

RECURSIVE SolveStmts(_)
SolveStmts(stmts) ==
    IF stmts = <<>> THEN 0
    ELSE (IF Head(stmts).op \in {"Solve", "IpoptSolve"} THEN 1 ELSE 0)
         + SolveStmts(Tail(stmts))

RECURSIVE SolveStmtsOfCells(_)
SolveStmtsOfCells(n) ==
    IF n = 0 THEN 0 ELSE SolveStmts(Notebook[n]) + SolveStmtsOfCells(n - 1)

\* The solve statements the kernel has executed.
SolveStmtsExecuted ==
    SolveStmtsOfCells(mpc.cell - 1)
    + (IF mpc.cell <= NCells
         THEN SolveStmts(SubSeq(Notebook[mpc.cell], 1, mpc.stmt - 1))
         ELSE 0)

C7_LPBothSolvers ==
    /\ CellDone(1) =>
          /\ out = RecordedLP
          /\ res.success = "True" /\ res.x = <<Num(1)>>
    /\ CellDone(2) =>
          /\ out = RecordedLPIpopt
          /\ res.success = "True" /\ res.x = <<Num(1)>>
          /\ prevRes.success = "True"
          /\ res.x = prevRes.x
          /\ res.status = prevRes.status

C7_Witness ==
    /\ CellDone(2)
    /\ res.solver = "IPOPT"
    /\ prevRes.solver = "SNOPT/f2c"

\* C8: a linear cost with no constraint fails as unbounded, and so does
\* minimize x with the only constraint x <= 1.
C8_LPUnbounded ==
    /\ CellDone(3) =>
          /\ mp.cons = <<>>
          /\ out.success = RecordedUnconstrainedSuccess
          /\ res.success = "False" /\ res.status = "kUnbounded"
    /\ CellDone(4) =>
          /\ mp.cons = <<Stmt("LinConLE", 1)>>
          /\ out.success = RecordedUpperBoundSuccess
          /\ res.success = "False" /\ res.status = "kUnbounded"
    /\ (/\ mp.state = "Solved"
        /\ mp.cons = <<>>
        /\ mp.costs # <<>>
        /\ \A i \in 1..Len(mp.costs) : mp.costs[i].op = "LinCost")
          => res.success = "False"

\* The x <= 1 cell is done and printed a placeholder of extreme magnitude.
C8_Witness ==
    /\ CellDone(4)
    /\ out.sol = <<Extreme>>

\* C9: minimize (x-3)^2 with no constraint succeeds with x = 3.
C9_QPUnconstrained ==
    CellDone(6) =>
        /\ mp.costs = <<Stmt("QuadCost", 3)>>
        /\ mp.cons = <<>>
        /\ res.success = "True"
        /\ res.x = <<Num(3)>>
        /\ out.success = "True"
        /\ out.sol = <<Num(3)>>

C9_Witness ==
    /\ CellDone(6)
    /\ out.status = "kSolutionFound"

\* C11 as stated: a solution vector is read (GetSolution) only from a result
\* whose success flag is true.
C11_ReadOnlyOnSuccess ==
    /\ out.sol # <<>> => res.success = "True"
    /\ kout.sol # <<>> => kres.success = "True"

\* C11 as amended: every cell reads the success flag before it reads the
\* solution vector, and reads the vector whatever the flag says; what it
\* reads from a failed result is a placeholder (not-a-number or extreme
\* magnitude) in every component, and a number or a local optimum otherwise.
C11_FlagReadFirst ==
    /\ out.sol # <<>> =>
          /\ out.success = res.success
          /\ out.sol = res.x
          /\ res.success = "False" =>
                \A i \in 1..Len(out.sol) : out.sol[i] \in Garbage
          /\ res.success = "True" =>
                \A i \in 1..Len(out.sol) : out.sol[i] \notin Garbage
    /\ kout.sol # <<>> =>
          /\ kout.success = kres.success
          /\ q_val = kres.x
          /\ kres.success = "False" =>
                \A i \in 1..Len(q_val) : q_val[i] \in Garbage
          /\ kres.success = "True" =>
                \A i \in 1..Len(q_val) : q_val[i] \notin Garbage

\* A cell has printed False and then a placeholder it read from the result.
C11_Witness ==
    /\ mpc.cell \in {3, 4}
    /\ out.success = "False"
    /\ out.sol # <<>>
    /\ out.sol[1] \in Garbage
    /\ res.status = "kUnbounded"

\* C12: the base is welded before Finalize, and once the plant is finalized
\* no step changes it; the module-level context, once created, holds the
\* default positions and no step changes it either.
C12_ModelImmutable ==
    /\ [](plant.finalized => plant.loaded /\ plant.welded)
    /\ [](context # NoContext =>
             plant.finalized /\ context = CreateDefaultContext(plant))
    /\ [][/\ plant.finalized => plant' = plant
          /\ context # NoContext => context' = context]_vars

\* After the plant was finalized the function was called with a bent arm, an
\* IK program was built and solved, and its solution was read.
C12_Witness ==
    /\ plant.finalized
    /\ context # NoContext
    /\ lastFK # NoCall /\ lastFK.q[2] > 0
    /\ fkRef # NoCall /\ fkRef.q # lastFK.q
    /\ ik.state = "Solved"
    /\ q_val # <<>>
====
